---- MODULE Spec2Model ----
(***************************************************************************)
(* Model of jwst/lib/utc_to_tdb.py: conversion of the start, mid and end   *)
(* times of an INT_TIMES table from UTC to TDB.                            *)
(*                                                                         *)
(* Numbers.  The program computes with float64.  The model computes with   *)
(* exact numbers and leaves rounding out.  TLC has 32-bit integers, which  *)
(* cannot hold products with 299792458 and 86400, so a number is a Laurent *)
(* polynomial with rational coefficients in two indeterminates:            *)
(*     c  the value of astropy.constants.c (m/s), and                      *)
(*     D  the float 86400. (seconds per day).                              *)
(* A number is the set of its non-zero terms [c, d, q], meaning            *)
(* q * c^c * D^d, with q a rational <<numerator, denominator>> in lowest   *)
(* terms.  Two numbers that are equal as polynomials are equal for every   *)
(* value of c and D.                                                       *)
(***************************************************************************)
EXTENDS Integers, Sequences, FiniteSets, TLC

----------------------------------------------------------------------------
(* Rationals <<n, d>>, d > 0, in lowest terms. *)

Abs(n) == IF n < 0 THEN -n ELSE n

RECURSIVE GCD(_, _)
GCD(a, b) == IF b = 0 THEN a ELSE GCD(b, a % b)

RNorm(n, d) ==
    LET s == IF d < 0 THEN -1 ELSE 1
        g == GCD(Abs(n), Abs(d))
    IN  IF n = 0 THEN <<0, 1>> ELSE <<(s * n) \div g, (s * d) \div g>>

RZero == <<0, 1>>
RAdd(a, b) == RNorm(a[1] * b[2] + b[1] * a[2], a[2] * b[2])
RNeg(a) == <<-a[1], a[2]>>
RMul(a, b) == RNorm(a[1] * b[1], a[2] * b[2])
RInv(a) == RNorm(a[2], a[1])
RFloor(a) == a[1] \div a[2]

----------------------------------------------------------------------------
(* Numbers: finite sets of terms with distinct exponents and q # 0. *)

Term(ce, de, q) == [c |-> ce, d |-> de, q |-> q]
Exps(P) == {<<t.c, t.d>> : t \in P}
Coef(P, e) ==
    IF e \in Exps(P)
    THEN (CHOOSE t \in P : <<t.c, t.d>> = e).q
    ELSE RZero

Frac(n, d) == IF n = 0 THEN {} ELSE {Term(0, 0, RNorm(n, d))}
Const(n) == Frac(n, 1)
Zero == {}

PAdd(P, Q) ==
    {Term(e[1], e[2], RAdd(Coef(P, e), Coef(Q, e))) :
        e \in {x \in Exps(P) \cup Exps(Q) : RAdd(Coef(P, x), Coef(Q, x)) # RZero}}
PNeg(P) == {Term(t.c, t.d, RNeg(t.q)) : t \in P}
PSub(P, Q) == PAdd(P, PNeg(Q))
PScale(r, P) == IF r = RZero THEN {} ELSE {Term(t.c, t.d, RMul(r, t.q)) : t \in P}
PShift(P, dc, dd) == {Term(t.c + dc, t.d + dd, t.q) : t \in P}

RECURSIVE PMulTerms(_, _)
PMulTerms(S, Q) ==
    IF S = {} THEN {}
    ELSE LET t == CHOOSE x \in S : TRUE
         IN  PAdd(PShift(PScale(t.q, Q), t.c, t.d), PMulTerms(S \ {t}, Q))
PMul(P, Q) == PMulTerms(P, Q)

(* Division by a number of one term (every divisor of the program is one). *)
PDiv(P, M) ==
    LET m == CHOOSE x \in M : TRUE
    IN  PShift(PScale(RInv(m.q), P), -m.c, -m.d)

(* The whole days of a time: the floor of its plain part. *)
Day(t) == RFloor(Coef(t, <<0, 0>>))

----------------------------------------------------------------------------
(* 3-vectors <<x, y, z>> of numbers, and arrays (sequences). *)

VAdd(u, v) == <<PAdd(u[1], v[1]), PAdd(u[2], v[2]), PAdd(u[3], v[3])>>
VSub(u, v) == <<PSub(u[1], v[1]), PSub(u[2], v[2]), PSub(u[3], v[3])>>
VZero == <<Zero, Zero, Zero>>
(* Dot with the components of v paired wrongly. *)
Dot_Mispaired(u, v) ==
    PAdd(PAdd(PMul(u[1], v[2]), PMul(u[2], v[1])), PMul(u[3], v[3]))

(* (u * v).sum(axis=-1) *)
Dot(u, v) == PAdd(PAdd(PMul(u[1], v[1]), PMul(u[2], v[2])), PMul(u[3], v[3]))

(* The two float constants kept as indeterminates. *)
C_M_PER_S == {Term(1, 0, <<1, 1>>)}
SecPerDay == {Term(0, 1, <<1, 1>>)}

(* k light-seconds, in metres; k seconds, in days. *)
LightSec(k) == PMul(Const(k), C_M_PER_S)
Seconds(n, d) == PDiv(Frac(n, d), SecPerDay)

(* float('nan'): the value 0/0, which no arithmetic of the model produces. *)
NaN == {Term(0, 0, <<0, 0>>)}

----------------------------------------------------------------------------
(* astropy.time: Time(utc, format="mjd", scale="utc").tt.value             *)

(* TAI-UTC in seconds on MJD day `day` (ERFA's leap-second table: 0 with a *)
(* "dubious year" warning before 1960, 35 s from 2012-07-01, 36 s from     *)
(* 2015-07-01, 37 s from 2017-01-01 and, with the same warning, for years  *)
(* past the table).  The model draws no time between 1960 and 2012-07-01.  *)
DeltaAT(day) ==
    IF day < 36934 THEN 0
    ELSE IF day < 57204 THEN 35
    ELSE IF day < 57754 THEN 36
    ELSE 37

(* One UTC MJD to TT MJD: TT = UTC + (TAI-UTC + 32.184 s).  Nothing is     *)
(* rejected: a NaN comes back as NaN, a date outside 0..100000 is          *)
(* converted like any other.                                               *)
UtcToTT(utc) ==
    IF utc = NaN THEN NaN
    ELSE PAdd(utc, PAdd(Seconds(DeltaAT(Day(utc)), 1), Seconds(32184, 1000)))

(* to_tt on an array. *)
to_tt(utc_time) == [i \in 1..Len(utc_time) |-> UtcToTT(utc_time[i])]

----------------------------------------------------------------------------
(* astropy.coordinates *)

(* cos and sin of a multiple of 90 degrees. *)
CosDeg(a) == LET r == a % 360 IN IF r = 0 THEN 1 ELSE IF r = 180 THEN -1 ELSE 0
SinDeg(a) == LET r == a % 360 IN IF r = 90 THEN 1 ELSE IF r = 270 THEN -1 ELSE 0

(* sqrt of a number that is the square of 0, 1 or 2. *)
Sqrt(P) == CHOOSE r \in {Const(0), Const(1), Const(2)} : PMul(r, r) = P

(* get_body_barycentric(body, t) in metres, under the ephemeris `kind`     *)
(* ("builtin" or "jpl").  eph = [earth, sun] selects one of a few          *)
(* ephemerides: the positions vary with the day, and the JPL ephemeris     *)
(* differs from the built-in one.                                          *)
get_body_barycentric(body, t, kind, eph) ==
    LET jpl == IF kind = "jpl" THEN 1 ELSE 0
    IN  IF body = "earth"
        THEN <<LightSec(eph.earth + (Day(t) % 2)),
               Const(1000 * (Day(t) % 3) + 500 * jpl),
               Zero>>
        ELSE <<LightSec(eph.sun),
               Const(250 * jpl),
               Const(2000 * (Day(t) % 2))>>

----------------------------------------------------------------------------
(* The fallback functions of utc_to_tdb.py. *)

(* solar_system_ephemeris after get_jwst_position2 ran with the flag. *)
EphemerisAfter(use_jpl_ephemeris, sse) ==
    IF use_jpl_ephemeris THEN "jpl" ELSE sse

(* Broadcast taking the first platform vector for every time. *)
Broadcast_FirstRow(jwstpos, i) == jwstpos[1]

(* jwstpos has shape (3,), (1, 3) or (len(times), 3): row i after numpy    *)
(* broadcasting against an array of len(times) rows.  One vector, of shape *)
(* (3,) or (1, 3), is the array of one row.                                *)
Broadcast(jwstpos, i) == IF Len(jwstpos) = 1 THEN jwstpos[1] ELSE jwstpos[i]

(* get_jwst_position2 with lines 186-188 reading sun_earth: the           *)
(* barycentric vectors built from the Sun-to-Earth vectors.                *)
get_jwst_position2_SunForBary(times, jwstpos, use_jpl_ephemeris, sse, eph) ==
    LET kind == EphemerisAfter(use_jpl_ephemeris, sse)
        bary_earth(i) == get_body_barycentric("earth", times[i], kind, eph)
        bary_sun(i) == get_body_barycentric("sun", times[i], kind, eph)
        sun_earth(i) == VSub(bary_earth(i), bary_sun(i))
        km(v) == <<PDiv(v[1], Const(1000)), PDiv(v[2], Const(1000)),
                   PDiv(v[3], Const(1000))>>
    IN  << [i \in 1..Len(times) |->
               VAdd(km(sun_earth(i)), Broadcast(jwstpos, i))],
           [i \in 1..Len(times) |->
               VAdd(km(sun_earth(i)), Broadcast(jwstpos, i))] >>

(* get_jwst_position2: <<barycenter-to-JWST, Sun-to-JWST>>, each an array  *)
(* of len(times) vectors in km.  sse is solar_system_ephemeris on entry.   *)
get_jwst_position2(times, jwstpos, use_jpl_ephemeris, sse, eph) ==
    LET kind == EphemerisAfter(use_jpl_ephemeris, sse)
        bary_earth(i) == get_body_barycentric("earth", times[i], kind, eph)
        bary_sun(i) == get_body_barycentric("sun", times[i], kind, eph)
        sun_earth(i) == VSub(bary_earth(i), bary_sun(i))
        km(v) == <<PDiv(v[1], Const(1000)), PDiv(v[2], Const(1000)),
                   PDiv(v[3], Const(1000))>>
        barysun_centerearth_pos == [i \in 1..Len(times) |-> km(bary_earth(i))]
        centersun_centerearth_pos == [i \in 1..Len(times) |-> km(sun_earth(i))]
    IN  << [i \in 1..Len(times) |->
               VAdd(barysun_centerearth_pos[i], Broadcast(jwstpos, i))],
           [i \in 1..Len(times) |->
               VAdd(centersun_centerearth_pos[i], Broadcast(jwstpos, i))] >>

(* get_target_vector2: the unit vector of (ra, dec), in degrees. *)
get_target_vector2(targetcoord) ==
    LET ra == targetcoord[1]
        dec == targetcoord[2]
        x == Const(CosDeg(dec) * CosDeg(ra))
        y == Const(CosDeg(dec) * SinDeg(ra))
        z == Const(SinDeg(dec))
        norm == Sqrt(PAdd(PAdd(PMul(x, x), PMul(y, y)), PMul(z, z)))
    IN  <<PDiv(x, norm), PDiv(y, norm), PDiv(z, norm)>>

(* compute_bary_helio_time2 without the division by 86400. *)
compute_bary_helio_time2_NoDays(targetcoord, times, jwstpos, use_jpl_ephemeris, sse, eph) ==
    LET tvector == get_target_vector2(targetcoord)
        pos == get_jwst_position2(times, jwstpos, use_jpl_ephemeris, sse, eph)
        cspeed == PDiv(C_M_PER_S, Const(1000))
    IN  << [i \in 1..Len(times) |->
               PAdd(times[i], PDiv(Dot(tvector, pos[1][i]), cspeed))],
           [i \in 1..Len(times) |->
               PAdd(times[i], PDiv(Dot(tvector, pos[2][i]), cspeed))] >>

(* compute_bary_helio_time2: <<barycentric times, heliocentric times>>. *)
compute_bary_helio_time2(targetcoord, times, jwstpos, use_jpl_ephemeris, sse, eph) ==
    LET tvector == get_target_vector2(targetcoord)
        pos == get_jwst_position2(times, jwstpos, use_jpl_ephemeris, sse, eph)
        jwst_bary_vectors == pos[1]
        jwst_sun_vectors == pos[2]
        proj_bary_dist(i) == Dot(tvector, jwst_bary_vectors[i])
        proj_sun_dist(i) == Dot(tvector, jwst_sun_vectors[i])
        cspeed == PDiv(C_M_PER_S, Const(1000))
    IN  << [i \in 1..Len(times) |->
               PAdd(times[i], PDiv(PDiv(proj_bary_dist(i), cspeed), SecPerDay))],
           [i \in 1..Len(times) |->
               PAdd(times[i], PDiv(PDiv(proj_sun_dist(i), cspeed), SecPerDay))] >>

(* linear_pos taking the first time for every row. *)
linear_pos_FirstTime(tt_times, eph_time, jwst_pos, jwst_vel) ==
    [i \in 1..Len(tt_times) |->
        LET dt == PSub(tt_times[1], eph_time)
        IN  <<PAdd(jwst_pos[1], PMul(dt, jwst_vel[1])),
              PAdd(jwst_pos[2], PMul(dt, jwst_vel[2])),
              PAdd(jwst_pos[3], PMul(dt, jwst_vel[3]))>>]

(* linear_pos: the position of JWST at each of tt_times, shape (n, 3);     *)
(* dt is in days and multiplies the velocity as it is.                     *)
linear_pos(tt_times, eph_time, jwst_pos, jwst_vel) ==
    [i \in 1..Len(tt_times) |->
        LET dt == PSub(tt_times[i], eph_time)
        IN  <<PAdd(jwst_pos[1], PMul(dt, jwst_vel[1])),
              PAdd(jwst_pos[2], PMul(dt, jwst_vel[2])),
              PAdd(jwst_pos[3], PMul(dt, jwst_vel[3]))>>]

----------------------------------------------------------------------------
(* jwst.timeconversion.compute_bary_helio_time(targetcoord, times): the    *)
(* precise ephemeris service.  It is part of the package but not of this   *)
(* file; the model takes its contract: from the target and the TT times it *)
(* returns <<barycentric times, heliocentric times>>, parallel to times,   *)
(* each time corrected by the light time along the target direction, the   *)
(* position of JWST coming from the service's own ephemeris.               *)
timeconversion_jwst_position(t) ==
    <<Const(1000 * (Day(t) % 2)), Const(2000), Const(3000)>>

timeconversion_compute_bary_helio_time(targetcoord, times, eph) ==
    LET tvector == get_target_vector2(targetcoord)
        km(v) == <<PDiv(v[1], Const(1000)), PDiv(v[2], Const(1000)),
                   PDiv(v[3], Const(1000))>>
        earth(i) == km(get_body_barycentric("earth", times[i], "jpl", eph))
        sun(i) == km(get_body_barycentric("sun", times[i], "jpl", eph))
        bary(i) == VAdd(earth(i), timeconversion_jwst_position(times[i]))
        helio(i) == VSub(bary(i), sun(i))
        cspeed == PDiv(C_M_PER_S, Const(1000))
        corr(v) == PDiv(PDiv(Dot(tvector, v), cspeed), SecPerDay)
    IN  << [i \in 1..Len(times) |-> PAdd(times[i], corr(bary(i)))],
           [i \in 1..Len(times) |-> PAdd(times[i], corr(helio(i)))] >>

----------------------------------------------------------------------------
(* FITS files.  An HDUList is a function from 0..nhdu-1 to HDUs; an HDU is *)
(* [header, data]: header a function from the keywords present to their    *)
(* values, data a function from the column names present to arrays of      *)
(* equal length (the rows); the data of an image or of the primary HDU is  *)
(* the function with no columns.                                           *)

(* len(hdu.data): the number of rows. *)
NRows(data) ==
    IF DOMAIN data = {} THEN 0 ELSE Len(data[CHOOSE k \in DOMAIN data : TRUE])

(* str.upper, on the one name the program passes. *)
Upper(str) == IF str = "int_times" THEN "INT_TIMES" ELSE str

(* find_hdu: [raised, hdunum, msg, ops].  ops are the operations on fd. *)
find_hdu(fd, extname) ==
    LET extname_uc == Upper(extname)
        nhdu == Cardinality(DOMAIN fd)
        found == {i \in 1..(nhdu - 1) :
                     /\ "EXTNAME" \in DOMAIN fd[i].header
                     /\ fd[i].header["EXTNAME"] = extname_uc}
        hdunum == CHOOSE i \in found : TRUE
    IN  IF Cardinality(found) >= 2
        THEN [raised |-> TRUE, hdunum |-> -1, ops |-> <<"read", "close">>,
              msg |-> "There are at least two HDUs with EXTNAME = INT_TIMES"]
        ELSE IF found = {} \/ NRows(fd[hdunum].data) < 1
        THEN [raised |-> TRUE, hdunum |-> -1, ops |-> <<"read", "close">>,
              msg |-> "An int_times table is required."]
        ELSE [raised |-> FALSE, hdunum |-> hdunum, ops |-> <<"read">>,
              msg |-> ""]

(* get_jwst_keywords: [raised, eph_time, jwst_pos, jwst_vel]; a keyword    *)
(* that is not in the primary header raises KeyError.                      *)
EphKeywords ==
    {"eph_time", "jwst_x", "jwst_y", "jwst_z", "jwst_dx", "jwst_dy", "jwst_dz"}

(* get_jwst_keywords handing eph_time on as it is in the header, in UTC. *)
get_jwst_keywords_UtcEpoch(fd) ==
    LET h == fd[0].header
    IN  IF ~(EphKeywords \subseteq DOMAIN h)
        THEN [raised |-> TRUE]
        ELSE [raised |-> FALSE,
              eph_time |-> h["eph_time"],
              jwst_pos |-> <<h["jwst_x"], h["jwst_y"], h["jwst_z"]>>,
              jwst_vel |-> <<h["jwst_dx"], h["jwst_dy"], h["jwst_dz"]>>]

get_jwst_keywords(fd) ==
    LET h == fd[0].header
    IN  IF ~(EphKeywords \subseteq DOMAIN h)
        THEN [raised |-> TRUE]
        ELSE [raised |-> FALSE,
              eph_time |-> UtcToTT(h["eph_time"]),
              jwst_pos |-> <<h["jwst_x"], h["jwst_y"], h["jwst_z"]>>,
              jwst_vel |-> <<h["jwst_dx"], h["jwst_dy"], h["jwst_dz"]>>]

(* The value utc_tdb returns: the sentinel (0., 0., 0.), or the three      *)
(* arrays; NoReturn when an exception leaves the function instead.         *)
Sentinel == [kind |-> "sentinel"]
NoReturn == [kind |-> "none"]
Arrays(start, mid, end) ==
    [kind |-> "arrays", start |-> start, mid |-> mid, end |-> end]

UtcColumns == <<"int_start_MJD_UTC", "int_mid_MJD_UTC", "int_end_MJD_UTC">>
TdbColumns == <<"int_start_BJD_TDB", "int_mid_BJD_TDB", "int_end_BJD_TDB">>

(* Lines 83-90: the three assignments run in order inside one try; the     *)
(* first column that is missing raises KeyError and ends the block, and    *)
(* the assignments before it have been made.  [data, missing, ops].        *)
WriteBack(data, tdb) ==
    LET has(k) == TdbColumns[k] \in DOMAIN data
        n == IF ~has(1) THEN 0 ELSE IF ~has(2) THEN 1 ELSE IF ~has(3) THEN 2 ELSE 3
        written == {TdbColumns[k] : k \in 1..n}
        value(name) == IF name = TdbColumns[1] THEN tdb[1]
                       ELSE IF name = TdbColumns[2] THEN tdb[2] ELSE tdb[3]
    IN  [data |-> [name \in DOMAIN data |->
                      IF name \in written THEN value(name) ELSE data[name]],
         missing |-> n < 3,
         ops |-> [k \in 1..n |-> "write"]]

(* Lines 58-81: one column of TT times to barycentric TDB, by the          *)
(* timeconversion module or by the fallback functions; the "[0]" of the    *)
(* program is the first of the pair.  kw is what get_jwst_keywords gave.   *)
(* [tdb, called]: the array, and the functions called to get it.          *)
ConvertColumn(targetcoord, times, use_timeconversion, kw, sse, eph) ==
    IF use_timeconversion
    THEN [tdb |-> timeconversion_compute_bary_helio_time(targetcoord, times, eph)[1],
          called |-> {"timeconversion.compute_bary_helio_time"}]
    ELSE [tdb |-> compute_bary_helio_time2(targetcoord, times,
                      linear_pos(times, kw.eph_time, kw.jwst_pos, kw.jwst_vel),
                      FALSE, sse, eph)[1],
          called |-> {"linear_pos", "compute_bary_helio_time2"}]

(* Lines 83-98: the write-back, the close and the return.  ops and log are *)
(* what the call did before.                                               *)
WriteBackAndReturn(fd, hdunum, tdb, ops, log, called) ==
    LET wb == WriteBack(fd[hdunum].data, tdb)
    IN  [exc |-> "none", ret |-> Arrays(tdb[1], tdb[2], tdb[3]),
         ops |-> ops \o wb.ops \o <<"close">>,
         log |-> log \o
                 (IF wb.missing
                  THEN <<"One or more of the *BJD_TDB columns do not exist,",
                         "so the INT_TIMES table was not updated.">>
                  ELSE <<>>),
         called |-> called,
         fd |-> [fd EXCEPT ![hdunum].data = wb.data]]

(* An exception leaves utc_tdb: nothing after the raise runs. *)
Raise(exc, fd, ops, log, called) ==
    [exc |-> exc, ret |-> NoReturn, ops |-> ops, log |-> log,
     called |-> called, fd |-> fd]

(* Lines 53-98, once find_hdu has returned hdunum. *)
ConvertTable(fd, hdunum, ops, use_timeconversion, sse, eph) ==
    LET h == fd[0].header
        data == fd[hdunum].data
        kw == get_jwst_keywords(fd)
        col(k) == ConvertColumn(<<h["targ_ra"], h["targ_dec"]>>,
                                to_tt(data[UtcColumns[k]]),
                                use_timeconversion, kw, sse, eph)
        pathlog == IF use_timeconversion THEN <<>>
                   ELSE <<"Couldn't import the timeconversion module;">>
    IN  IF ~({UtcColumns[k] : k \in 1..3} \subseteq DOMAIN data)
        THEN Raise("KeyError", fd, ops \o <<"read">>, <<>>, {"find_hdu", "to_tt"})
        ELSE IF ~use_timeconversion /\ kw.raised
        THEN Raise("KeyError", fd, ops \o <<"read", "read">>, pathlog,
                   {"find_hdu", "to_tt", "get_jwst_keywords"})
        ELSE WriteBackAndReturn(fd, hdunum,
                 [k \in 1..3 |-> col(k).tdb],
                 ops \o (IF use_timeconversion THEN <<"read">>
                         ELSE <<"read", "read">>),
                 pathlog,
                 {"find_hdu", "to_tt"}
                     \cup (IF use_timeconversion THEN {} ELSE {"get_jwst_keywords"})
                     \cup UNION {col(k).called : k \in 1..3})

(* utc_tdb(filename), with fd the HDUList that fits.open returns for the   *)
(* file.  The outcome: exc the exception that leaves the function ("none"  *)
(* when it returns), ret the value returned, ops the operations made on    *)
(* fd in order, log the warnings, called the functions it called, fd the   *)
(* HDUList at the end (what the file holds once it is closed).             *)
utc_tdb(fd, use_timeconversion, sse, eph) ==
    LET found == find_hdu(fd, "int_times")
    IN  IF ~({"targ_ra", "targ_dec"} \subseteq DOMAIN fd[0].header)
        THEN Raise("KeyError", fd, <<"open", "read">>, <<>>, {})
        ELSE IF found.raised
        THEN [exc |-> "none", ret |-> Sentinel,
              ops |-> <<"open", "read">> \o found.ops \o <<"close">>,
              log |-> <<found.msg>>, called |-> {"find_hdu"}, fd |-> fd]
        ELSE ConvertTable(fd, found.hdunum, <<"open", "read">> \o found.ops,
                          use_timeconversion, sse, eph)

----------------------------------------------------------------------------
(* Bounds and the inputs drawn within them. *)

MaxRows == 2
MaxTimes == 2

Targets == {<<0, 0>>, <<90, 0>>, <<0, 90>>}

(* Ephemerides the process may find installed. *)
Ephemerides ==
    { [earth |-> 0, sun |-> 0], [earth |-> 0, sun |-> 2],
      [earth |-> 1, sun |-> 1] }

(* Rows of an INT_TIMES table: <<start, mid, end>> in MJD UTC. *)
RowSet ==
    { <<Const(57700), Frac(230801, 4), Frac(115401, 2)>>,
      <<Frac(116003, 2), Frac(232007, 4), Const(58002)>> }

(* eph_time (MJD UTC), position (km) and velocity (km/s) of JWST as the    *)
(* primary header gives them.                                              *)
PlatformStates ==
    { [eph_time |-> Const(57700), pos |-> <<Const(1000), Zero, Zero>>,
       vel |-> VZero],
      [eph_time |-> Const(58000), pos |-> <<Zero, Const(-2000), Const(500)>>,
       vel |-> <<Const(1), Const(3), Const(-2)>>] }

PrimaryHeader(hasTarg, tc, hasEph, ps) ==
    [k \in (IF hasTarg THEN {"targ_ra", "targ_dec"} ELSE {})
           \cup (IF hasEph THEN EphKeywords ELSE {}) |->
        CASE k = "targ_ra" -> tc[1]
          [] k = "targ_dec" -> tc[2]
          [] k = "eph_time" -> ps.eph_time
          [] k = "jwst_x" -> ps.pos[1]
          [] k = "jwst_y" -> ps.pos[2]
          [] k = "jwst_z" -> ps.pos[3]
          [] k = "jwst_dx" -> ps.vel[1]
          [] k = "jwst_dy" -> ps.vel[2]
          [] k = "jwst_dz" -> ps.vel[3]]

NoData == [k \in {} |-> <<>>]
PrimaryHDU(header) == [header |-> header, data |-> NoData]
ImageHDU == [header |-> [k \in {"EXTNAME"} |-> "SCI"], data |-> NoData]

(* An INT_TIMES table of the given rows, with the UTC columns `utc` and    *)
(* the TDB columns `tdb` (sets of names); a TDB column holds zeros.        *)
TableHDU(rows, utc, tdb) ==
    [header |-> [k \in {"EXTNAME"} |-> "INT_TIMES"],
     data |-> [name \in utc \cup tdb |->
                  [i \in 1..Len(rows) |->
                      IF name = UtcColumns[1] THEN rows[i][1]
                      ELSE IF name = UtcColumns[2] THEN rows[i][2]
                      ELSE IF name = UtcColumns[3] THEN rows[i][3]
                      ELSE Zero]]]

HDUList(hdus) == [i \in 0..(Len(hdus) - 1) |-> hdus[i + 1]]

Tables == UNION {[1..n -> RowSet] : n \in 0..MaxRows}
AllUtc == {UtcColumns[k] : k \in 1..3}
AllTdb == {TdbColumns[k] : k \in 1..3}

(* Primary headers: with every keyword, without the platform keywords,    *)
(* without the target keywords.                                            *)
Headers ==
    {PrimaryHeader(TRUE, tc, TRUE, ps) : tc \in Targets, ps \in PlatformStates}
    \cup {PrimaryHeader(TRUE, tc, FALSE, CHOOSE ps \in PlatformStates : TRUE) :
              tc \in Targets}
    \cup {PrimaryHeader(FALSE, <<0, 0>>, he, CHOOSE ps \in PlatformStates : TRUE) :
              he \in BOOLEAN}

(* The HDUs after the primary one: no INT_TIMES table, one (with every set *)
(* of TDB columns, or short of a UTC column), or two.                      *)
Extensions ==
    { <<ImageHDU>> }
    \cup { <<ImageHDU, TableHDU(t, AllUtc, tdb)>> : t \in Tables, tdb \in SUBSET AllTdb }
    \cup { <<ImageHDU, TableHDU(t, AllUtc \ {UtcColumns[2]}, AllTdb)>> :
              t \in {x \in Tables : Len(x) = 1} }
    \cup { <<TableHDU(t, AllUtc, AllTdb), TableHDU(t, AllUtc, AllTdb)>> :
              t \in {x \in Tables : Len(x) <= 1} }

(* TT times and positions for calls of the fallback functions. *)
TTSet == {Const(59000), Frac(118003, 2)}
EpochSet == {Const(59000), Frac(118001, 2)}
TimeArrays == UNION {[1..n -> TTSet] : n \in 1..MaxTimes}
PosSet ==
    { VZero,
      <<Const(1000), Zero, Zero>>,
      <<Zero, Const(-2000), Const(500)>>,
      <<PDiv(LightSec(-1), Const(1000)), Zero, Zero>> }
VelSet == {VZero, <<Const(1), Const(3), Const(-2)>>}
(* jwstpos of shape (1, 3), or (n, 3) with rows that differ. *)
PosArrays(n) ==
    [1..1 -> PosSet]
    \cup [1..n -> {VZero, <<PDiv(LightSec(-1), Const(1000)), Zero, Zero>>}]
UtcSet ==
    {Const(57700), Frac(232001, 4), Const(-1), Const(100001), NaN}
UtcArrays == UNION {[1..n -> UtcSet] : n \in 1..MaxTimes}

----------------------------------------------------------------------------
(* The process. *)

VARIABLES
    USE_TIMECONVERSION,       \* set once, when the module is imported
    solar_system_ephemeris,   \* astropy's global: "builtin" or "jpl"
    ephem,                    \* the ephemeris data installed
    pc,                       \* "idle", or "done" after a call
    call,                     \* the last call: its name and arguments
    result                    \* and its outcome

vars == <<USE_TIMECONVERSION, solar_system_ephemeris, ephem, pc, call, result>>

(* After the import of the module: timeconversion was imported or not. *)
Init ==
    /\ USE_TIMECONVERSION \in BOOLEAN
    /\ solar_system_ephemeris = "builtin"
    /\ ephem \in Ephemerides
    /\ pc = "idle"
    /\ call = [op |-> "none"]
    /\ result = [exc |-> "none"]

(* utc_tdb trying the import of timeconversion again at each call. *)
UtcTdb_Reprobe ==
    /\ pc = "idle"
    /\ USE_TIMECONVERSION' \in BOOLEAN
    /\ \E header \in Headers, ext \in Extensions :
          LET fd == HDUList(<<PrimaryHDU(header)>> \o ext)
          IN  /\ call' = [op |-> "utc_tdb", fd |-> fd]
              /\ result' = utc_tdb(fd, USE_TIMECONVERSION',
                                   solar_system_ephemeris, ephem)
    /\ pc' = "done"
    /\ UNCHANGED <<solar_system_ephemeris, ephem>>

(* utc_tdb(filename) on a file of the bounded set. *)
UtcTdb ==
    /\ pc = "idle"
    /\ \E header \in Headers, ext \in Extensions :
          LET fd == HDUList(<<PrimaryHDU(header)>> \o ext)
          IN  /\ call' = [op |-> "utc_tdb", fd |-> fd]
              /\ result' = utc_tdb(fd, USE_TIMECONVERSION,
                                   solar_system_ephemeris, ephem)
    /\ pc' = "done"
    /\ UNCHANGED <<USE_TIMECONVERSION, solar_system_ephemeris, ephem>>

(* compute_bary_helio_time2 called directly.  The fallback functions need  *)
(* numpy and astropy.coordinates, imported only when timeconversion is not.*)
ComputeBaryHelioTime2 ==
    /\ pc = "idle"
    /\ ~USE_TIMECONVERSION
    /\ \E targetcoord \in Targets, times \in TimeArrays, use_jpl \in BOOLEAN :
          \E jwstpos \in PosArrays(Len(times)) :
              /\ call' = [op |-> "compute_bary_helio_time2",
                          targetcoord |-> targetcoord, times |-> times,
                          jwstpos |-> jwstpos, use_jpl_ephemeris |-> use_jpl,
                          sse |-> solar_system_ephemeris]
              /\ result' = [exc |-> "none",
                            ret |-> compute_bary_helio_time2(targetcoord, times,
                                        jwstpos, use_jpl, solar_system_ephemeris,
                                        ephem)]
              /\ solar_system_ephemeris' =
                     EphemerisAfter(use_jpl, solar_system_ephemeris)
    /\ pc' = "done"
    /\ UNCHANGED <<USE_TIMECONVERSION, ephem>>

(* get_jwst_position2 called directly. *)
GetJwstPosition2 ==
    /\ pc = "idle"
    /\ ~USE_TIMECONVERSION
    /\ \E times \in TimeArrays, use_jpl \in BOOLEAN :
          \E jwstpos \in PosArrays(Len(times)) :
              /\ call' = [op |-> "get_jwst_position2", times |-> times,
                          jwstpos |-> jwstpos, use_jpl_ephemeris |-> use_jpl,
                          sse |-> solar_system_ephemeris]
              /\ result' = [exc |-> "none",
                            ret |-> get_jwst_position2(times, jwstpos, use_jpl,
                                        solar_system_ephemeris, ephem)]
              /\ solar_system_ephemeris' =
                     EphemerisAfter(use_jpl, solar_system_ephemeris)
    /\ pc' = "done"
    /\ UNCHANGED <<USE_TIMECONVERSION, ephem>>

(* linear_pos called directly. *)
LinearPos ==
    /\ pc = "idle"
    /\ \E tt_times \in TimeArrays, eph_time \in EpochSet,
          jwst_pos \in PosSet, jwst_vel \in VelSet :
          /\ call' = [op |-> "linear_pos", tt_times |-> tt_times,
                      eph_time |-> eph_time, jwst_pos |-> jwst_pos,
                      jwst_vel |-> jwst_vel]
          /\ result' = [exc |-> "none",
                        ret |-> linear_pos(tt_times, eph_time, jwst_pos, jwst_vel)]
    /\ pc' = "done"
    /\ UNCHANGED <<USE_TIMECONVERSION, solar_system_ephemeris, ephem>>

(* to_tt called directly. *)
ToTT ==
    /\ pc = "idle"
    /\ \E utc_time \in UtcArrays :
          /\ call' = [op |-> "to_tt", utc_time |-> utc_time]
          /\ result' = [exc |-> "none", ret |-> to_tt(utc_time)]
    /\ pc' = "done"
    /\ UNCHANGED <<USE_TIMECONVERSION, solar_system_ephemeris, ephem>>

(* The caller has the outcome and goes on to its next call. *)
Return ==
    /\ pc = "done"
    /\ pc' = "idle"
    /\ call' = [op |-> "none"]
    /\ result' = [exc |-> "none"]
    /\ UNCHANGED <<USE_TIMECONVERSION, solar_system_ephemeris, ephem>>

Next ==
    UtcTdb \/ ComputeBaryHelioTime2 \/ GetJwstPosition2 \/ LinearPos \/ ToTT
        \/ Return

Spec == Init /\ [][Next]_vars

----------------------------------------------------------------------------
(* What the claims speak of, written without the operators of the model.   *)

Done(op) == pc = "done" /\ call.op = op

(* dot(u, v) *)
Projected(u, v) ==
    PAdd(PMul(u[1], v[1]), PAdd(PMul(u[2], v[2]), PMul(u[3], v[3])))

(* t + dot(u, v) / c_km_per_s / 86400, v in km *)
LightTime(t, u, v) ==
    PAdd(t, PDiv(PDiv(Projected(u, v), PDiv(C_M_PER_S, Const(1000))), SecPerDay))

(* The HDUs of a file, after the primary one, named INT_TIMES. *)
IntTimesHDUs(fd) ==
    {i \in DOMAIN fd \ {0} :
        /\ "EXTNAME" \in DOMAIN fd[i].header
        /\ fd[i].header["EXTNAME"] = "INT_TIMES"}

(* The INT_TIMES table is absent, occurs more than once, or has no row. *)
TableMissing(fd) ==
    \/ Cardinality(IntTimesHDUs(fd)) # 1
    \/ \E i \in IntTimesHDUs(fd) : NRows(fd[i].data) < 1

TheTable(fd) == fd[CHOOSE i \in IntTimesHDUs(fd) : TRUE].data

Logged(msg) == \E i \in 1..Len(result.log) : result.log[i] = msg

(* A time that is NaN or outside the MJD range 0..100000. *)
InvalidTime(t) ==
    \/ t = NaN
    \/ LET q == Coef(t, <<0, 0>>) IN q[1] < 0 \/ q[1] > 100000 * q[2]

----------------------------------------------------------------------------
(* C1: for every file whose INT_TIMES table is absent, empty or            *)
(* duplicated, utc_tdb returns the sentinel (0., 0., 0.) and no exception  *)
(* reaches the caller.  Refuted: line 44 reads targ_ra and targ_dec before *)
(* the table is looked for, and a header without them raises KeyError.     *)
C1_SentinelForMissingTable ==
    (Done("utc_tdb") /\ TableMissing(call.fd))
        => (result.exc = "none" /\ result.ret.kind = "sentinel")

(* C2: on every path by which utc_tdb ends, an exception included, the     *)
(* file it opened is closed.  Refuted: no exception between the open and   *)
(* the close is handled, so a KeyError leaves the file open.               *)
C2_FileClosedAtEnd ==
    Done("utc_tdb") => \E i \in 1..Len(result.ops) : result.ops[i] = "close"

(* C3: when a TDB output column is absent, no column of the INT_TIMES      *)
(* table is changed, a warning is logged and the arrays are returned.      *)
(* Refuted: the columns before the first absent one have been assigned,    *)
(* and the close writes them to the file.                                  *)
C3_WriteBackSkippedEntirely ==
    (/\ Done("utc_tdb")
     /\ result.ret.kind = "arrays"
     /\ ~(AllTdb \subseteq DOMAIN TheTable(call.fd)))
        => (/\ result.fd = call.fd
            /\ Logged("so the INT_TIMES table was not updated."))

(* C4: compute_bary_helio_time2 returns, element by element,               *)
(* t + dot(target_unit, v) / c_km_per_s / 86400: the barycentric output    *)
(* with v the barycenter-to-JWST vector, the heliocentric output with v    *)
(* the Sun-to-JWST vector.                                                 *)
C4_LightTimeFormula ==
    Done("compute_bary_helio_time2") =>
        LET u == get_target_vector2(call.targetcoord)
            v == get_jwst_position2(call.times, call.jwstpos,
                     call.use_jpl_ephemeris, call.sse, ephem)
        IN  /\ Len(result.ret[1]) = Len(call.times)
            /\ Len(result.ret[2]) = Len(call.times)
            /\ \A i \in 1..Len(call.times) :
                  /\ result.ret[1][i] = LightTime(call.times[i], u, v[1][i])
                  /\ result.ret[2][i] = LightTime(call.times[i], u, v[2][i])

(* C4's case: two times, a correction that is not zero, and barycentric    *)
(* and heliocentric outputs that differ.                                   *)
C4_Witness ==
    /\ Done("compute_bary_helio_time2")
    /\ Len(call.times) = 2
    /\ result.ret[1][1] # call.times[1]
    /\ result.ret[1][2] # result.ret[2][2]

(* C5: linear_pos returns position + (t - epoch) * 86400 * velocity for    *)
(* each t in days, the velocity being in km/s.  Refuted: line 284-285      *)
(* multiply the velocity by the days, without the 86400.                   *)
C5_LinearExtrapolation ==
    Done("linear_pos") =>
        \A i \in 1..Len(call.tt_times) :
            LET secs == PMul(PSub(call.tt_times[i], call.eph_time), SecPerDay)
            IN  result.ret[i] =
                    << PAdd(call.jwst_pos[1], PMul(secs, call.jwst_vel[1])),
                       PAdd(call.jwst_pos[2], PMul(secs, call.jwst_vel[2])),
                       PAdd(call.jwst_pos[3], PMul(secs, call.jwst_vel[3])) >>

(* C6: with a valid table utc_tdb returns three arrays, each as long as    *)
(* its UTC column, element i being the barycentric (not the heliocentric)  *)
(* time got from element i of that column alone: the conversion of the     *)
(* one-element array holding it.                                           *)
C6_Expected(utc) ==
    LET h == call.fd[0].header
        targetcoord == <<h["targ_ra"], h["targ_dec"]>>
        tt == UtcToTT(utc)
        earth == get_body_barycentric("earth", tt, solar_system_ephemeris, ephem)
        earth_km == <<PDiv(earth[1], Const(1000)), PDiv(earth[2], Const(1000)),
                      PDiv(earth[3], Const(1000))>>
        jwstpos == linear_pos(<<tt>>, UtcToTT(h["eph_time"]),
                       <<h["jwst_x"], h["jwst_y"], h["jwst_z"]>>,
                       <<h["jwst_dx"], h["jwst_dy"], h["jwst_dz"]>>)[1]
    IN  IF USE_TIMECONVERSION
        THEN timeconversion_compute_bary_helio_time(targetcoord, <<tt>>, ephem)[1][1]
        ELSE LightTime(tt, get_target_vector2(targetcoord),
                       VAdd(earth_km, jwstpos))

C7_PathFixedPerProcess ==
    [][/\ USE_TIMECONVERSION' = USE_TIMECONVERSION
       /\ (pc' = "done" /\ call'.op = "utc_tdb") =>
             IF USE_TIMECONVERSION
             THEN result'.called \cap {"get_jwst_keywords", "linear_pos",
                                       "compute_bary_helio_time2"} = {}
             ELSE "timeconversion.compute_bary_helio_time" \notin result'.called
      ]_vars

(* C7's case: a call that converted a table on the fallback path. *)
C7_Witness ==
    /\ Done("utc_tdb")
    /\ result.ret.kind = "arrays"
    /\ ~USE_TIMECONVERSION
    /\ {"get_jwst_keywords", "linear_pos", "compute_bary_helio_time2"}
           \subseteq result.called

(* C8: to_tt fails with InvalidTimeValue when an input is NaN or outside   *)
(* the MJD range 0..100000, and has no error path otherwise.  Refuted:     *)
(* to_tt checks nothing and converts such a value like any other.          *)
C8_ToTTRejectsInvalid ==
    Done("to_tt") =>
        IF \E i \in 1..Len(call.utc_time) : InvalidTime(call.utc_time[i])
        THEN result.exc = "InvalidTimeValue"
        ELSE result.exc = "none"

(* C9: the two channels never mix: with the same target, times, platform   *)
(* position and barycenter-to-Earth vectors, another ephemeris of the Sun  *)
(* leaves the barycentric output as it is; and with the same Sun-to-Earth  *)
(* vectors, another barycentric position of the Earth leaves the           *)
(* heliocentric output as it is.                                           *)
C9_Same(body, e2) ==
    \A i \in 1..Len(call.times) :
        LET kind == EphemerisAfter(call.use_jpl_ephemeris, call.sse)
            earth(e) == get_body_barycentric("earth", call.times[i], kind, e)
            sun(e) == get_body_barycentric("sun", call.times[i], kind, e)
        IN  IF body = "earth" THEN earth(e2) = earth(ephem)
            ELSE VSub(earth(e2), sun(e2)) = VSub(earth(ephem), sun(ephem))

C9_Rerun(e2) ==
    compute_bary_helio_time2(call.targetcoord, call.times, call.jwstpos,
                             call.use_jpl_ephemeris, call.sse, e2)

C9_ChannelsNeverMix ==
    Done("compute_bary_helio_time2") =>
        \A e2 \in Ephemerides :
            /\ C9_Same("earth", e2) => C9_Rerun(e2)[1] = result.ret[1]
            /\ C9_Same("sun_earth", e2) => C9_Rerun(e2)[2] = result.ret[2]

(* C9's case: a second run whose Sun alone differs, and whose heliocentric *)
(* output differs.                                                         *)
C9_Witness ==
    /\ Done("compute_bary_helio_time2")
    /\ \E e2 \in Ephemerides :
          /\ C9_Same("earth", e2)
          /\ C9_Rerun(e2)[2] # result.ret[2]

(* C10: when the position vector is orthogonal to the target unit vector,  *)
(* the zero vector included, the corrected time is the input time.         *)
C10_OrthogonalNoCorrection ==
    Done("compute_bary_helio_time2") =>
        LET u == get_target_vector2(call.targetcoord)
            v == get_jwst_position2(call.times, call.jwstpos,
                     call.use_jpl_ephemeris, call.sse, ephem)
        IN  \A i \in 1..Len(call.times) :
               /\ Projected(u, v[1][i]) = Zero => result.ret[1][i] = call.times[i]
               /\ Projected(u, v[2][i]) = Zero => result.ret[2][i] = call.times[i]

(* C10's case: one time whose barycentric vector is zero, another whose    *)
(* vector is orthogonal to the target and not zero.                        *)
C10_Witness ==
    /\ Done("compute_bary_helio_time2")
    /\ Len(call.times) = 2
    /\ LET u == get_target_vector2(call.targetcoord)
           v == get_jwst_position2(call.times, call.jwstpos,
                    call.use_jpl_ephemeris, call.sse, ephem)
       IN  /\ v[1][1] = VZero
           /\ v[1][2] # VZero
           /\ Projected(u, v[1][2]) = Zero

(* C11: for every time index i, get_jwst_position2 returns                 *)
(* barycentric[i] = bary_earth[i] + platform[i] and                        *)
(* heliocentric[i] = (bary_earth[i] - bary_sun[i]) + platform[i], the      *)
(* Earth vectors converted from metres to km, platform[i] being the one    *)
(* vector given for every time or the i-th of one vector per time.         *)
C11_Km(v) ==
    <<PScale(<<1, 1000>>, v[1]), PScale(<<1, 1000>>, v[2]),
      PScale(<<1, 1000>>, v[3])>>

C11_Platform(i) ==
    IF Len(call.jwstpos) = Len(call.times) THEN call.jwstpos[i]
    ELSE call.jwstpos[1]

C11_PositionSums ==
    Done("get_jwst_position2") =>
        /\ Len(result.ret[1]) = Len(call.times)
        /\ Len(result.ret[2]) = Len(call.times)
        /\ \A i \in 1..Len(call.times) :
              LET kind == IF call.use_jpl_ephemeris THEN "jpl" ELSE call.sse
                  bary_earth ==
                      get_body_barycentric("earth", call.times[i], kind, ephem)
                  bary_sun ==
                      get_body_barycentric("sun", call.times[i], kind, ephem)
              IN  /\ result.ret[1][i] =
                         VAdd(C11_Km(bary_earth), C11_Platform(i))
                  /\ result.ret[2][i] =
                         VAdd(VSub(C11_Km(bary_earth), C11_Km(bary_sun)),
                              C11_Platform(i))

(* C11's case: two times on which the Earth differs, a Sun away from the   *)
(* barycenter, and one platform vector per time, the two differing.        *)
C11_Witness ==
    /\ Done("get_jwst_position2")
    /\ Len(call.times) = 2
    /\ Len(call.jwstpos) = 2
    /\ call.jwstpos[1] # call.jwstpos[2]
    /\ get_body_barycentric("earth", call.times[1], "builtin", ephem)
           # get_body_barycentric("earth", call.times[2], "builtin", ephem)
    /\ result.ret[1][2] # result.ret[2][2]

(* C12: on the fallback path eph_time is converted from UTC to TT before   *)
(* it is used: for each of the three columns, the platform position that   *)
(* enters the returned time is position + (t - epoch) * velocity with t    *)
(* and epoch both in TT, never t in TT and epoch in UTC.                   *)
C12_Elapsed(utc) ==
    PSub(UtcToTT(utc), UtcToTT(call.fd[0].header["eph_time"]))

C12_Returned(utc) ==
    LET h == call.fd[0].header
        tt == UtcToTT(utc)
        dt == C12_Elapsed(utc)
        earth == get_body_barycentric("earth", tt, solar_system_ephemeris, ephem)
        platform == <<PAdd(h["jwst_x"], PMul(dt, h["jwst_dx"])),
                      PAdd(h["jwst_y"], PMul(dt, h["jwst_dy"])),
                      PAdd(h["jwst_z"], PMul(dt, h["jwst_dz"]))>>
    IN  LightTime(tt, get_target_vector2(<<h["targ_ra"], h["targ_dec"]>>),
                  VAdd(C11_Km(earth), platform))

C12_EpochInTT ==
    (Done("utc_tdb") /\ ~USE_TIMECONVERSION /\ result.ret.kind = "arrays") =>
        LET data == TheTable(call.fd)
            out == <<result.ret.start, result.ret.mid, result.ret.end>>
        IN  \A k \in 1..3 : \A i \in 1..Len(out[k]) :
               out[k][i] = C12_Returned(data[UtcColumns[k]][i])

(* C12's case: a platform moving along the target direction, and a row     *)
(* with a leap second between it and the epoch, so that the elapsed TT     *)
(* time differs from the elapsed UTC time as well.                         *)
C12_Witness ==
    /\ Done("utc_tdb")
    /\ ~USE_TIMECONVERSION
    /\ result.ret.kind = "arrays"
    /\ LET h == call.fd[0].header
           start == TheTable(call.fd)[UtcColumns[1]]
       IN  /\ Projected(get_target_vector2(<<h["targ_ra"], h["targ_dec"]>>),
                        <<h["jwst_dx"], h["jwst_dy"], h["jwst_dz"]>>) # Zero
           /\ \E i \in 1..Len(start) :
                 C12_Elapsed(start[i]) # PSub(start[i], h["eph_time"])

(* C13: the ephemeris a call of get_jwst_position2 or of                   *)
(* compute_bary_helio_time2 reads is fixed by its use_jpl_ephemeris        *)
(* argument alone: whatever calls came before, a call with                 *)
(* use_jpl_ephemeris=False gets the Earth and the Sun from the built-in    *)
(* ephemeris.  Refuted: line 172 sets astropy's process-wide               *)
(* solar_system_ephemeris to 'jpl' and nothing sets it back, so every      *)
(* later call reads the JPL ephemeris.                                     *)
C13_EphemerisFromArgumentOnly ==
    /\ (Done("get_jwst_position2") /\ ~call.use_jpl_ephemeris) =>
           result.ret = get_jwst_position2(call.times, call.jwstpos, FALSE,
                                           "builtin", ephem)
    /\ (Done("compute_bary_helio_time2") /\ ~call.use_jpl_ephemeris) =>
           result.ret = compute_bary_helio_time2(call.targetcoord, call.times,
                            call.jwstpos, FALSE, "builtin", ephem)

(* C14: within one utc_tdb call the file is closed at most once, and       *)
(* nothing is read from it, written to it or closed after the close, also  *)
(* when find_hdu raises RuntimeError.  Refuted: find_hdu closes the file   *)
(* before it raises (lines 125 and 131), and the handler in utc_tdb closes *)
(* it again (line 50).                                                     *)
C14_ClosedAtMostOnce ==
    Done("utc_tdb") =>
        \A i \in 1..Len(result.ops) :
            result.ops[i] = "close" => i = Len(result.ops)

====
